---- MODULE Spec2Model ----
(***************************************************************************)
(* Model of dc_federated/backend/dcf_server.py: the DCFServer worker       *)
(* registry (worker_list, active_workers), the WorkerAuthenticator, the    *)
(* admin handlers and the three relay handlers.                            *)
(*                                                                         *)
(* Spec      handlers run one at a time (one action per handler).          *)
(* SpecConc  handlers of several requests interleave statement by          *)
(*           statement (the code takes no lock anywhere).                  *)
(***************************************************************************)
EXTENDS Integers, Sequences, FiniteSets, TLC

\* ------------------------------------------------------------------ bounds
\* Number of requests handled in one run.
MaxOps == 3
\* Largest reading of time.time().
MaxClock == 2
\* Number of request threads of SpecConc.
NThreads == 2

\* --------------------------------------------------------------- constants
\* dc_federated.backend._constants (imported with *).
NO_AUTHENTICATION == "NO_AUTHENTICATION"
AUTHENTICATED == "AUTHENTICATED"
INVALID_WORKER == "INVALID_WORKER"
UNREGISTERED_WORKER == "UNREGISTERED_WORKER"

\* -------------------------------------------------------------- identities
\* A worker id is a string, modelled as a sequence of tokens; the empty
\* string is the empty sequence.
EmptyStr == <<>>
KeyK == <<"K">>
KeyJ == <<"J">>

\* hashlib.sha224(str(t).encode('utf-8')).hexdigest(): a function of the
\* clock reading alone, taken as collision free.
Sha224Hex(t) == <<"sha224", ToString(t)>>

\* Variant: the suffix is left off.
MintWorkerId_untagged(t) == Sha224Hex(t)

\* ... + '_unauthenticated'
MintWorkerId(t) == Sha224Hex(t) \o <<"_unauthenticated">>

IsUnauthenticatedId(id) == Len(id) > 0 /\ id[Len(id)] = "_unauthenticated"

\* Keys a register request may present.
PresentedKeys == {KeyK, KeyJ}
\* Ids that may appear in a URL path (<worker_id> matches no empty segment).
PathIds == {KeyK, KeyJ, MintWorkerId(0)}
\* Ids that may appear in a JSON body.
BodyIds == PathIds \cup {EmptyStr}

\* A signed message: who signed it, what was signed, and whether the text
\* is hex at all.
SignedMessages ==
    { [encoding |-> "hex", signer |-> KeyK, phrase |-> "agreed"],
      [encoding |-> "hex", signer |-> KeyK, phrase |-> "other"],
      [encoding |-> "hex", signer |-> KeyJ, phrase |-> "agreed"],
      [encoding |-> "malformed", signer |-> KeyK, phrase |-> "agreed"] }

NoMessage == [encoding |-> "none", signer |-> EmptyStr, phrase |-> "none"]

\* os.environ.get(name): None when the variable is not set.
EnvNone == [set |-> FALSE, v |-> ""]
EnvVal(s) == [set |-> TRUE, v |-> s]

\* The credentials of a request (HTTP basic authentication).
Credentials ==
    { [user |-> "admin", password |-> "secret"],
      [user |-> "admin", password |-> "guess"],
      [user |-> "mallory", password |-> "secret"] }

VARIABLES
    authenticate,     \* WorkerAuthenticator.authenticate
    keys,             \* WorkerAuthenticator.keys (the key file's lines)
    adm_username,     \* os.environ ADMIN_USERNAME
    adm_password,     \* os.environ ADMIN_PASSWORD
    worker_list,      \* DCFServer.worker_list (a list)
    active_workers,   \* DCFServer.active_workers (a set)
    clock,            \* the last reading of time.time()
    calls,            \* register/unregister callbacks invoked so far, in order
    last,             \* the last completed request: arguments, state before, result
    nops,             \* requests handled so far
    thr               \* SpecConc: each thread's request and position

vars == <<authenticate, keys, adm_username, adm_password, worker_list,
          active_workers, clock, calls, last, nops, thr>>

config == <<authenticate, keys, adm_username, adm_password>>

Range(s) == { s[i] : i \in 1..Len(s) }

\* list.remove(x): removes the first occurrence.
RemoveFirst(s, x) ==
    LET i == CHOOSE j \in 1..Len(s) : s[j] = x /\ \A k \in 1..(j-1) : s[k] # x
    IN  SubSeq(s, 1, i-1) \o SubSeq(s, i+1, Len(s))

\* ------------------------------------------------------------ return values
Ret(kind, id, active) ==
    [kind |-> kind, worker_id |-> id, active |-> active, error |-> "",
     list |-> <<>>]

\* json.dumps({"error": ...})
ErrorRet(msg) ==
    [kind |-> "error", worker_id |-> EmptyStr, active |-> FALSE, error |-> msg,
     list |-> <<>>]

\* str(e) of an exception caught by a relay handler.
ErrorText(msg) ==
    [kind |-> "error_text", worker_id |-> EmptyStr, active |-> FALSE,
     error |-> msg, list |-> <<>>]

Call(cb, id) == [cb |-> cb, id |-> id]

JOINED == "register_worker_callback"
LEFT == "unregister_worker_callback"

IsLifecycle(c) == c.cb \in {JOINED, LEFT}

\* What a handler did: the registry after it, the callbacks it invoked, in
\* order, and what it returned.
Outcome(wl, aw, cbs, ret) == [wl |-> wl, aw |-> aw, cbs |-> cbs, ret |-> ret]

NoChange(ret) == Outcome(worker_list, active_workers, <<>>, ret)

\* An exception that leaves the handler (bottle answers 500).
Raised == Ret("raised", EmptyStr, FALSE)

\* ------------------------------------------------------- WorkerAuthenticator
\* VerifyKey.verify(signed_message.encode(), encoder=HexEncoder)
Verify(key, signed_message) ==
    IF signed_message.encoding # "hex" THEN "Error"
    ELSE IF signed_message.signer # key THEN "BadSignatureError"
    ELSE "ok"

AuthResult(raised, success, type) ==
    [raised |-> raised, success |-> success, type |-> type]

\* Variant: the key list is not consulted; the signature is verified under
\* the key the request presents.
authenticate_worker_any_key(public_key_str, signed_message) ==
    IF ~authenticate THEN AuthResult(FALSE, TRUE, NO_AUTHENTICATION)
    ELSE LET v == Verify(public_key_str, signed_message) IN
         IF v = "BadSignatureError" THEN AuthResult(FALSE, FALSE, AUTHENTICATED)
         ELSE IF v = "ok" THEN AuthResult(FALSE, TRUE, AUTHENTICATED)
         ELSE AuthResult(TRUE, FALSE, AUTHENTICATED)

authenticate_worker(public_key_str, signed_message) ==
    IF ~authenticate THEN AuthResult(FALSE, TRUE, NO_AUTHENTICATION)
    ELSE IF public_key_str \notin keys THEN AuthResult(FALSE, FALSE, AUTHENTICATED)
    ELSE LET v == Verify(public_key_str, signed_message) IN
         IF v = "BadSignatureError" THEN AuthResult(FALSE, FALSE, AUTHENTICATED)
         ELSE IF v = "ok" THEN AuthResult(FALSE, TRUE, AUTHENTICATED)
         ELSE AuthResult(TRUE, FALSE, AUTHENTICATED)

\* ------------------------------------------------------------------ is_admin
\* Variant: only the password is compared.
is_admin_password_only(username, password) ==
    IF ~adm_password.set THEN FALSE
    ELSE password = adm_password.v

is_admin(username, password) ==
    IF ~adm_username.set \/ ~adm_password.set THEN FALSE
    ELSE username = adm_username.v /\ password = adm_password.v

\* bottle.auth_basic(self.is_admin): the handler runs only when the check
\* accepts; otherwise the response is 401.
auth_basic(cred) == is_admin(cred.user, cred.password)

Unauthorized == Ret("401", EmptyStr, FALSE)

\* ----------------------------------------------------------- register_worker
\* Variant: line 184 is left out.
Admit_not_activated(wl, worker_id) ==
    Outcome(wl, active_workers,
            <<Call(JOINED, worker_id)>>, Ret("worker_id", worker_id, TRUE))

\* Lines 184-187: add to active_workers, invoke the callback, return the id.
\* The register and unregister callbacks are taken to return normally.
Admit(wl, worker_id) ==
    Outcome(wl, active_workers \cup {worker_id},
            <<Call(JOINED, worker_id)>>, Ret("worker_id", worker_id, TRUE))

\* Variant: an authenticated key that is not in worker_list is appended,
\* as a minted id is.
register_worker_auto_provision(public_key_str, signed_message, t) ==
    LET a == authenticate_worker(public_key_str, signed_message) IN
    IF a.raised THEN NoChange(Raised)
    ELSE IF ~a.success THEN NoChange(Ret(INVALID_WORKER, EmptyStr, FALSE))
    ELSE LET worker_id == IF a.type = NO_AUTHENTICATION
                          THEN MintWorkerId(t) ELSE public_key_str IN
         Admit(IF worker_id \notin Range(worker_list)
               THEN Append(worker_list, worker_id) ELSE worker_list,
               worker_id)

register_worker(public_key_str, signed_message, t) ==
    LET a == authenticate_worker(public_key_str, signed_message) IN
    IF a.raised THEN NoChange(Raised)
    ELSE IF ~a.success THEN NoChange(Ret(INVALID_WORKER, EmptyStr, FALSE))
    ELSE IF a.type = NO_AUTHENTICATION
    THEN LET worker_id == MintWorkerId(t) IN
         Admit(IF worker_id \notin Range(worker_list)
               THEN Append(worker_list, worker_id) ELSE worker_list,
               worker_id)
    ELSE LET worker_id == public_key_str IN
         IF worker_id \notin Range(worker_list)
         THEN NoChange(Ret(INVALID_WORKER, EmptyStr, FALSE))
         ELSE Admit(worker_list, worker_id)

\* ---------------------------------------------------------- admin_add_worker
\* The JSON body: PUBLIC_KEY_STR and "active" may each be missing.
AddBodies ==
    { [has_key |-> FALSE, public_key_str |-> EmptyStr,
       has_active |-> FALSE, active |-> FALSE] }
    \cup { [has_key |-> TRUE, public_key_str |-> id,
            has_active |-> FALSE, active |-> FALSE] : id \in BodyIds }
    \cup { [has_key |-> TRUE, public_key_str |-> id,
            has_active |-> TRUE, active |-> b] : id \in BodyIds, b \in BOOLEAN }

\* Variant: lines 235-239 are left out.
admin_add_worker_no_exists_check(worker_data) ==
    IF ~worker_data.has_key
    THEN NoChange(ErrorRet("Public key was not not passed in input"))
    ELSE LET worker_id == worker_data.public_key_str IN
    IF Len(worker_id) = 0
    THEN NoChange(ErrorRet("Public key must be a string"))
    ELSE LET wl == Append(worker_list, worker_id) IN
         IF worker_data.has_active /\ worker_data.active
         THEN Outcome(wl, active_workers \cup {worker_id},
                      <<Call(JOINED, worker_id)>>, Ret("worker", worker_id, TRUE))
         ELSE Outcome(wl, active_workers, <<>>,
                      Ret("worker", worker_id, worker_id \in active_workers))

admin_add_worker(worker_data) ==
    IF ~worker_data.has_key
    THEN NoChange(ErrorRet("Public key was not not passed in input"))
    ELSE LET worker_id == worker_data.public_key_str IN
    IF Len(worker_id) = 0
    THEN NoChange(ErrorRet("Public key must be a string"))
    ELSE IF worker_id \in Range(worker_list)
    THEN NoChange(ErrorRet("already exists"))
    ELSE LET wl == Append(worker_list, worker_id) IN
         IF worker_data.has_active /\ worker_data.active
         THEN Outcome(wl, active_workers \cup {worker_id},
                      <<Call(JOINED, worker_id)>>, Ret("worker", worker_id, TRUE))
         ELSE Outcome(wl, active_workers, <<>>,
                      Ret("worker", worker_id, worker_id \in active_workers))

\* ------------------------------------------------------- admin_delete_worker
\* Variant: line 267 is left out.
admin_delete_worker_silent(worker_id) ==
    Outcome(IF worker_id \in Range(worker_list)
            THEN RemoveFirst(worker_list, worker_id) ELSE worker_list,
            active_workers \ {worker_id}, <<>>, Ret("none", EmptyStr, FALSE))

\* Variant: lines 265-268 are left out.
admin_delete_worker_keeps_active(worker_id) ==
    Outcome(IF worker_id \in Range(worker_list)
            THEN RemoveFirst(worker_list, worker_id) ELSE worker_list,
            active_workers, <<>>, Ret("none", EmptyStr, FALSE))

admin_delete_worker(worker_id) ==
    LET wl == IF worker_id \in Range(worker_list)
              THEN RemoveFirst(worker_list, worker_id) ELSE worker_list
    IN  IF worker_id \in active_workers
        THEN Outcome(wl, active_workers \ {worker_id},
                     <<Call(LEFT, worker_id)>>, Ret("none", EmptyStr, FALSE))
        ELSE Outcome(wl, active_workers, <<>>, Ret("none", EmptyStr, FALSE))

\* --------------------------------------------------- admin_set_worker_status
\* The JSON body: "active" may be missing, or be no boolean.
StatusBodies ==
    { [has_active |-> TRUE, is_bool |-> TRUE, active |-> b] : b \in BOOLEAN }
    \cup { [has_active |-> FALSE, is_bool |-> FALSE, active |-> FALSE],
           [has_active |-> TRUE, is_bool |-> FALSE, active |-> FALSE] }

\* Variant: line 307 is left out.
SetStatus_no_left(worker_id, active) ==
    LET prev_active == worker_id \in active_workers IN
    IF active /\ ~prev_active
    THEN Outcome(worker_list, active_workers \cup {worker_id},
                 <<Call(JOINED, worker_id)>>, Ret("worker", worker_id, active))
    ELSE IF ~active /\ prev_active
    THEN Outcome(worker_list, active_workers \ {worker_id},
                 <<>>, Ret("worker", worker_id, active))
    ELSE NoChange(Ret("worker", worker_id, active))

\* Variant: prev_active is not consulted.
SetStatus_ignores_prev(worker_id, active) ==
    IF active
    THEN Outcome(worker_list, active_workers \cup {worker_id},
                 <<Call(JOINED, worker_id)>>, Ret("worker", worker_id, active))
    ELSE Outcome(worker_list, active_workers \ {worker_id},
                 <<Call(LEFT, worker_id)>>, Ret("worker", worker_id, active))

\* Variant: a deactivated id is also taken out of worker_list.
SetStatus_deactivate_forgets(worker_id, active) ==
    LET prev_active == worker_id \in active_workers IN
    IF active /\ ~prev_active
    THEN Outcome(worker_list, active_workers \cup {worker_id},
                 <<Call(JOINED, worker_id)>>, Ret("worker", worker_id, active))
    ELSE IF ~active /\ prev_active
    THEN Outcome(RemoveFirst(worker_list, worker_id),
                 active_workers \ {worker_id},
                 <<Call(LEFT, worker_id)>>, Ret("worker", worker_id, active))
    ELSE NoChange(Ret("worker", worker_id, active))

\* Lines 299-309.
SetStatus(worker_id, active) ==
    LET prev_active == worker_id \in active_workers IN
    IF active /\ ~prev_active
    THEN Outcome(worker_list, active_workers \cup {worker_id},
                 <<Call(JOINED, worker_id)>>, Ret("worker", worker_id, active))
    ELSE IF ~active /\ prev_active
    THEN Outcome(worker_list, active_workers \ {worker_id},
                 <<Call(LEFT, worker_id)>>, Ret("worker", worker_id, active))
    ELSE NoChange(Ret("worker", worker_id, active))

\* Variant: lines 293-297 are left out.
admin_set_worker_status_no_known_check(worker_id, worker_data) ==
    IF ~worker_data.has_active
    THEN NoChange(ErrorRet("Key 'active' is missing in payload"))
    ELSE IF ~worker_data.is_bool
    THEN NoChange(ErrorRet("Key 'active' should be a boolean"))
    ELSE SetStatus(worker_id, worker_data.active)

admin_set_worker_status(worker_id, worker_data) ==
    IF ~worker_data.has_active
    THEN NoChange(ErrorRet("Key 'active' is missing in payload"))
    ELSE IF ~worker_data.is_bool
    THEN NoChange(ErrorRet("Key 'active' should be a boolean"))
    ELSE IF worker_id \notin Range(worker_list)
    THEN NoChange(ErrorRet("Unknown worker"))
    ELSE SetStatus(worker_id, worker_data.active)

\* -------------------------------------------------------- admin_list_workers
admin_list_workers ==
    NoChange([kind |-> "list", worker_id |-> EmptyStr, active |-> FALSE,
              error |-> "",
              list |-> [i \in 1..Len(worker_list) |->
                          [worker_id |-> worker_list[i],
                           active |-> worker_list[i] \in active_workers]]])

\* ------------------------------------------------------------ relay handlers
UPDATE_CB == "receive_worker_update_callback"
STATUS_CB == "query_global_model_status_callback"
MODEL_CB == "return_global_model_callback"

Payloads == {"deflate", "corrupt"}

\* zlib.decompress(payload) raises zlib.error on a payload that is no
\* deflate stream.
Decompresses(payload) == payload = "deflate"

\* Variant: the callback is invoked a second time.
Relay_twice(cb, worker_id, cb_raises, kind) ==
    Outcome(worker_list, active_workers,
            <<Call(cb, worker_id), Call(cb, worker_id)>>,
            IF cb_raises THEN ErrorText("callback") ELSE Ret(kind, EmptyStr, FALSE))

\* An application callback is invoked; it returns or raises, and what it
\* raises is caught by the handler's except clause.
Relay(cb, worker_id, cb_raises, kind) ==
    Outcome(worker_list, active_workers, <<Call(cb, worker_id)>>,
            IF cb_raises THEN ErrorText("callback") ELSE Ret(kind, EmptyStr, FALSE))

\* Variant: only worker_list is consulted.
Registered_known_only(worker_id) == worker_id \in Range(worker_list)

\* Lines 332-340, 370-378, 407-415.
Registered(worker_id) ==
    worker_id \in Range(worker_list) /\ worker_id \in active_workers

Unregistered == NoChange(Ret(UNREGISTERED_WORKER, EmptyStr, FALSE))

\* Variant: zlib.decompress is outside the try block.
receive_worker_update_uncaught(worker_id, payload, cb_raises) ==
    IF ~Decompresses(payload) THEN NoChange(Raised)
    ELSE IF ~Registered(worker_id) THEN Unregistered
    ELSE Relay(UPDATE_CB, worker_id, cb_raises, "callback_result")

receive_worker_update(worker_id, payload, cb_raises) ==
    IF ~Decompresses(payload) THEN NoChange(ErrorText("zlib.error"))
    ELSE IF ~Registered(worker_id) THEN Unregistered
    ELSE Relay(UPDATE_CB, worker_id, cb_raises, "callback_result")

\* The JSON body of a query: WORKER_ID_KEY may be missing.
QueryBodies ==
    { [has_id |-> TRUE, worker_id |-> id] : id \in BodyIds }
    \cup { [has_id |-> FALSE, worker_id |-> EmptyStr] }

query_global_model_status(query_request, cb_raises) ==
    IF ~query_request.has_id THEN Unregistered
    ELSE IF ~Registered(query_request.worker_id) THEN Unregistered
    ELSE Relay(STATUS_CB, query_request.worker_id, cb_raises, "status")

return_global_model(query_request, cb_raises) ==
    IF ~query_request.has_id THEN Unregistered
    ELSE IF ~Registered(query_request.worker_id) THEN Unregistered
    ELSE Relay(MODEL_CB, query_request.worker_id, cb_raises, "compressed_model")

\* ------------------------------------------------------------------- state
NoCred == [user |-> "", password |-> ""]

\* The arguments of a request; a field a request does not carry keeps the
\* value it has here.
NoArgs ==
    [cred |-> NoCred, public_key_str |-> EmptyStr, signed_message |-> NoMessage,
     worker_id |-> EmptyStr, has_id |-> FALSE, has_active |-> FALSE,
     is_bool |-> FALSE, active |-> FALSE, payload |-> "none",
     cb_raises |-> FALSE]

NoRequest ==
    [op |-> "none", args |-> NoArgs, pre_wl |-> <<>>, pre_aw |-> {},
     cbs |-> <<>>, ret |-> Ret("none", EmptyStr, FALSE)]

Idle ==
    [pc |-> "idle", op |-> "none", worker_id |-> EmptyStr, active |-> FALSE,
     prev_active |-> FALSE]

\* DCFServer.__init__ and WorkerAuthenticator.__init__: the registry starts
\* empty; a key file makes authenticate true and fills keys.
Init ==
    /\ authenticate \in BOOLEAN
    /\ keys = IF authenticate THEN {KeyK} ELSE {}
    /\ adm_username \in {EnvNone, EnvVal("admin")}
    /\ adm_password \in {EnvNone, EnvVal("secret")}
    /\ worker_list = <<>>
    /\ active_workers = {}
    /\ clock = 0
    /\ calls = <<>>
    /\ last = NoRequest
    /\ nops = 0
    /\ thr = [t \in 1..NThreads |-> Idle]

\* ----------------------------------------------- Spec: one handler at a time
\* A request is handled from start to end: the registry, the callbacks
\* invoked and the response.
Handle(op, args, out) ==
    /\ nops < MaxOps
    /\ worker_list' = out.wl
    /\ active_workers' = out.aw
    /\ calls' = calls \o SelectSeq(out.cbs, IsLifecycle)
    /\ last' = [op |-> op, args |-> args, pre_wl |-> worker_list,
                pre_aw |-> active_workers, cbs |-> out.cbs, ret |-> out.ret]
    /\ nops' = nops + 1
    /\ UNCHANGED <<config, thr>>

\* Lines 455-462: every admin route is wrapped in auth_basic(self.is_admin).
Guarded(cred, out) == IF auth_basic(cred) THEN out ELSE NoChange(Unauthorized)

\* time.time() is read only when a worker id is minted (line 169); a
\* reading is not below the one before, and may equal it.
Register ==
    \E k \in PresentedKeys, m \in SignedMessages, t \in clock..MaxClock :
        /\ authenticate => t = clock
        /\ clock' = t
        /\ Handle("register",
                  [NoArgs EXCEPT !.public_key_str = k, !.signed_message = m],
                  register_worker(k, m, t))

AdminList ==
    \E cred \in Credentials :
        /\ Handle("admin_list", [NoArgs EXCEPT !.cred = cred],
                  Guarded(cred, admin_list_workers))
        /\ UNCHANGED clock

AdminAdd ==
    \E cred \in Credentials, b \in AddBodies :
        /\ Handle("admin_add",
                  [NoArgs EXCEPT !.cred = cred, !.has_id = b.has_key,
                                 !.worker_id = b.public_key_str,
                                 !.has_active = b.has_active,
                                 !.is_bool = b.has_active, !.active = b.active],
                  Guarded(cred, admin_add_worker(b)))
        /\ UNCHANGED clock

AdminDelete ==
    \E cred \in Credentials, id \in PathIds :
        /\ Handle("admin_delete",
                  [NoArgs EXCEPT !.cred = cred, !.has_id = TRUE, !.worker_id = id],
                  Guarded(cred, admin_delete_worker(id)))
        /\ UNCHANGED clock

AdminSetStatus ==
    \E cred \in Credentials, id \in PathIds, b \in StatusBodies :
        /\ Handle("admin_set_status",
                  [NoArgs EXCEPT !.cred = cred, !.has_id = TRUE, !.worker_id = id,
                                 !.has_active = b.has_active,
                                 !.is_bool = b.is_bool, !.active = b.active],
                  Guarded(cred, admin_set_worker_status(id, b)))
        /\ UNCHANGED clock

\* Whether the application callback raised: it can only when the handler
\* invoked it.
Raises(out, cb_raises) == cb_raises /\ out.cbs # <<>>

ReceiveWorkerUpdate ==
    \E id \in PathIds, p \in Payloads, cb_raises \in BOOLEAN :
        LET out == receive_worker_update(id, p, cb_raises) IN
        /\ Handle("receive_worker_update",
                  [NoArgs EXCEPT !.has_id = TRUE, !.worker_id = id, !.payload = p,
                                 !.cb_raises = Raises(out, cb_raises)],
                  out)
        /\ UNCHANGED clock

QueryGlobalModelStatus ==
    \E q \in QueryBodies, cb_raises \in BOOLEAN :
        LET out == query_global_model_status(q, cb_raises) IN
        /\ Handle("query_global_model_status",
                  [NoArgs EXCEPT !.has_id = q.has_id, !.worker_id = q.worker_id,
                                 !.cb_raises = Raises(out, cb_raises)],
                  out)
        /\ UNCHANGED clock

ReturnGlobalModel ==
    \E q \in QueryBodies, cb_raises \in BOOLEAN :
        LET out == return_global_model(q, cb_raises) IN
        /\ Handle("return_global_model",
                  [NoArgs EXCEPT !.has_id = q.has_id, !.worker_id = q.worker_id,
                                 !.cb_raises = Raises(out, cb_raises)],
                  out)
        /\ UNCHANGED clock

Next ==
    \/ Register
    \/ AdminList
    \/ AdminAdd
    \/ AdminDelete
    \/ AdminSetStatus
    \/ ReceiveWorkerUpdate
    \/ QueryGlobalModelStatus
    \/ ReturnGlobalModel

Spec == Init /\ [][Next]_vars

\* --------------------------------- SpecConc: handlers interleave by statement
\* The handlers take no lock: between any two statements of one request
\* another request's statements may run.  A thread's pc names the line it
\* is about to execute.  Requests that end before they read the registry
\* (a failed authentication, a 401, a malformed body) are left out: they
\* are a single step that changes nothing.
Threads == 1..NThreads

At(th, pc) == thr[th].pc = pc

Goto(th, pc) == thr' = [thr EXCEPT ![th].pc = pc]

\* The handler returns, or an exception leaves it.
Return(th) == thr' = [thr EXCEPT ![th] = Idle]

Begin(th, op, pc, worker_id, active) ==
    /\ At(th, "idle")
    /\ nops < MaxOps
    /\ nops' = nops + 1
    /\ thr' = [thr EXCEPT ![th] = [pc |-> pc, op |-> op, worker_id |-> worker_id,
                                    active |-> active, prev_active |-> FALSE]]
    /\ UNCHANGED <<config, worker_list, active_workers, calls, last>>

Frame == UNCHANGED <<config, clock, last, nops>>

\* A callback invoked by thread th's handler, with the handler's name.
CallBy(th, cb) == [cb |-> cb, id |-> thr[th].worker_id, op |-> thr[th].op]

\* Lines 155-178: authentication succeeds and the worker id is fixed.
BeginRegister(th) ==
    \E k \in PresentedKeys, m \in SignedMessages, t \in clock..MaxClock :
        LET a == authenticate_worker(k, m) IN
        /\ ~a.raised /\ a.success
        /\ authenticate => t = clock
        /\ clock' = t
        /\ IF a.type = NO_AUTHENTICATION
           THEN Begin(th, "register", "L174", MintWorkerId(t), TRUE)
           ELSE Begin(th, "register", "L179", k, TRUE)

L174(th) ==
    /\ At(th, "L174")
    /\ Goto(th, IF thr[th].worker_id \notin Range(worker_list) THEN "L175" ELSE "L184")
    /\ UNCHANGED <<worker_list, active_workers, calls>> /\ Frame

L175(th) ==
    /\ At(th, "L175")
    /\ worker_list' = Append(worker_list, thr[th].worker_id)
    /\ Goto(th, "L184")
    /\ UNCHANGED <<active_workers, calls>> /\ Frame

L179(th) ==
    /\ At(th, "L179")
    /\ IF thr[th].worker_id \notin Range(worker_list)
       THEN Return(th) ELSE Goto(th, "L184")
    /\ UNCHANGED <<worker_list, active_workers, calls>> /\ Frame

L184(th) ==
    /\ At(th, "L184")
    /\ active_workers' = active_workers \cup {thr[th].worker_id}
    /\ Goto(th, "L185")
    /\ UNCHANGED <<worker_list, calls>> /\ Frame

L185(th) ==
    /\ At(th, "L185")
    /\ calls' = Append(calls, CallBy(th, JOINED))
    /\ Return(th)
    /\ UNCHANGED <<worker_list, active_workers>> /\ Frame

\* Lines 216-233: an authorized request whose body names a worker id.
BeginAdminAdd(th) ==
    \E cred \in Credentials, b \in AddBodies :
        /\ auth_basic(cred)
        /\ b.has_key /\ Len(b.public_key_str) > 0
        /\ Begin(th, "admin_add", "L235", b.public_key_str,
                 b.has_active /\ b.active)
        /\ UNCHANGED clock

L235(th) ==
    /\ At(th, "L235")
    /\ IF thr[th].worker_id \in Range(worker_list)
       THEN Return(th) ELSE Goto(th, "L241")
    /\ UNCHANGED <<worker_list, active_workers, calls>> /\ Frame

L241(th) ==
    /\ At(th, "L241")
    /\ worker_list' = Append(worker_list, thr[th].worker_id)
    /\ Goto(th, "L244")
    /\ UNCHANGED <<active_workers, calls>> /\ Frame

L244(th) ==
    /\ At(th, "L244")
    /\ IF thr[th].active THEN Goto(th, "L245") ELSE Return(th)
    /\ UNCHANGED <<worker_list, active_workers, calls>> /\ Frame

L245(th) ==
    /\ At(th, "L245")
    /\ active_workers' = active_workers \cup {thr[th].worker_id}
    /\ Goto(th, "L246")
    /\ UNCHANGED <<worker_list, calls>> /\ Frame

L246(th) ==
    /\ At(th, "L246")
    /\ calls' = Append(calls, CallBy(th, JOINED))
    /\ Return(th)
    /\ UNCHANGED <<worker_list, active_workers>> /\ Frame

BeginAdminDelete(th) ==
    \E cred \in Credentials, id \in PathIds :
        /\ auth_basic(cred)
        /\ Begin(th, "admin_delete", "L260", id, FALSE)
        /\ UNCHANGED clock

L260(th) ==
    /\ At(th, "L260")
    /\ Goto(th, IF thr[th].worker_id \in Range(worker_list) THEN "L261" ELSE "L265")
    /\ UNCHANGED <<worker_list, active_workers, calls>> /\ Frame

\* list.remove raises ValueError when the id is no longer in the list.
L261(th) ==
    /\ At(th, "L261")
    /\ IF thr[th].worker_id \in Range(worker_list)
       THEN /\ worker_list' = RemoveFirst(worker_list, thr[th].worker_id)
            /\ Goto(th, "L265")
       ELSE /\ UNCHANGED worker_list
            /\ Return(th)
    /\ UNCHANGED <<active_workers, calls>> /\ Frame

L265(th) ==
    /\ At(th, "L265")
    /\ IF thr[th].worker_id \in active_workers
       THEN Goto(th, "L266") ELSE Return(th)
    /\ UNCHANGED <<worker_list, active_workers, calls>> /\ Frame

\* set.remove raises KeyError when the id is no longer in the set.
L266(th) ==
    /\ At(th, "L266")
    /\ IF thr[th].worker_id \in active_workers
       THEN /\ active_workers' = active_workers \ {thr[th].worker_id}
            /\ Goto(th, "L267")
       ELSE /\ UNCHANGED active_workers
            /\ Return(th)
    /\ UNCHANGED <<worker_list, calls>> /\ Frame

L267(th) ==
    /\ At(th, "L267")
    /\ calls' = Append(calls, CallBy(th, LEFT))
    /\ Return(th)
    /\ UNCHANGED <<worker_list, active_workers>> /\ Frame

\* Lines 274-291: an authorized request whose body carries a boolean.
BeginAdminSetStatus(th) ==
    \E cred \in Credentials, id \in PathIds, b \in StatusBodies :
        /\ auth_basic(cred)
        /\ b.has_active /\ b.is_bool
        /\ Begin(th, "admin_set_status", "L293", id, b.active)
        /\ UNCHANGED clock

L293(th) ==
    /\ At(th, "L293")
    /\ IF thr[th].worker_id \notin Range(worker_list)
       THEN Return(th) ELSE Goto(th, "L299")
    /\ UNCHANGED <<worker_list, active_workers, calls>> /\ Frame

L299(th) ==
    /\ At(th, "L299")
    /\ thr' = [thr EXCEPT ![th].prev_active = thr[th].worker_id \in active_workers,
                          ![th].pc = "L300"]
    /\ UNCHANGED <<worker_list, active_workers, calls>> /\ Frame

L300(th) ==
    /\ At(th, "L300")
    /\ IF thr[th].active /\ ~thr[th].prev_active THEN Goto(th, "L301")
       ELSE IF ~thr[th].active /\ thr[th].prev_active THEN Goto(th, "L305")
       ELSE Return(th)
    /\ UNCHANGED <<worker_list, active_workers, calls>> /\ Frame

L301(th) ==
    /\ At(th, "L301")
    /\ active_workers' = active_workers \cup {thr[th].worker_id}
    /\ Goto(th, "L303")
    /\ UNCHANGED <<worker_list, calls>> /\ Frame

L303(th) ==
    /\ At(th, "L303")
    /\ calls' = Append(calls, CallBy(th, JOINED))
    /\ Return(th)
    /\ UNCHANGED <<worker_list, active_workers>> /\ Frame

L305(th) ==
    /\ At(th, "L305")
    /\ IF thr[th].worker_id \in active_workers
       THEN /\ active_workers' = active_workers \ {thr[th].worker_id}
            /\ Goto(th, "L307")
       ELSE /\ UNCHANGED active_workers
            /\ Return(th)
    /\ UNCHANGED <<worker_list, calls>> /\ Frame

L307(th) ==
    /\ At(th, "L307")
    /\ calls' = Append(calls, CallBy(th, LEFT))
    /\ Return(th)
    /\ UNCHANGED <<worker_list, active_workers>> /\ Frame

NextConc ==
    \E th \in Threads :
        \/ BeginRegister(th) \/ L174(th) \/ L175(th) \/ L179(th)
        \/ L184(th) \/ L185(th)
        \/ BeginAdminAdd(th) \/ L235(th) \/ L241(th) \/ L244(th)
        \/ L245(th) \/ L246(th)
        \/ BeginAdminDelete(th) \/ L260(th) \/ L261(th) \/ L265(th)
        \/ L266(th) \/ L267(th)
        \/ BeginAdminSetStatus(th) \/ L293(th) \/ L299(th) \/ L300(th)
        \/ L301(th) \/ L303(th) \/ L305(th) \/ L307(th)

SpecConc == Init /\ [][NextConc]_vars

\* ===================================================================== claims
RegistryOps == {"register", "admin_add", "admin_delete", "admin_set_status"}
RelayOps == {"receive_worker_update", "query_global_model_status",
             "return_global_model"}

Known(wl, id) == id \in Range(wl)

\* The registry is as it was before the last request, and the request
\* invoked no callback.
LastChangedNothing ==
    /\ worker_list = last.pre_wl
    /\ active_workers = last.pre_aw
    /\ last.cbs = <<>>

\* The last request was register and its authentication succeeded in
\* KeyRestricted mode.
LastRegisterAuthenticated ==
    /\ authenticate
    /\ last.op = "register"
    /\ last.args.public_key_str \in keys
    /\ last.args.signed_message.encoding = "hex"
    /\ last.args.signed_message.signer = last.args.public_key_str

\* C1: after every completed registry operation, handlers run one at a
\* time, every id in active_workers is in worker_list.
C1_ActiveSubsetKnown == active_workers \subseteq Range(worker_list)

\* A removal has left another worker active and a third id known but inactive.
C1_Witness ==
    /\ last.op = "admin_delete"
    /\ last.args.worker_id \in last.pre_aw
    /\ active_workers # {}
    /\ Cardinality(Range(worker_list)) > Cardinality(active_workers)

\* C2: with interleaved handlers, once every request has returned no id is
\* in active_workers that is absent from worker_list.
C2_InterleavedActiveSubsetKnown ==
    (\A th \in Threads : thr[th].pc = "idle")
        => \A id \in active_workers :
              \E n \in 1..Len(worker_list) : worker_list[n] = id

\* C3: a relay request whose target id is not in active_workers when the
\* request is made invokes no callback.
C3_InactiveNeverRelayed ==
    (/\ last.op \in RelayOps
     /\ ~(last.args.has_id /\ last.args.worker_id \in last.pre_aw))
        => last.cbs = <<>>

\* An update with a sound payload for a known but inactive id is refused.
C3_Witness ==
    /\ last.op = "receive_worker_update"
    /\ last.args.payload = "deflate"
    /\ Known(last.pre_wl, last.args.worker_id)
    /\ last.args.worker_id \notin last.pre_aw
    /\ last.ret.kind = UNREGISTERED_WORKER

\* C4: submitUpdate for an id that is not both known and active returns
\* UNREGISTERED_WORKER, whatever the payload.
C4_SentinelForEveryPayload ==
    (/\ last.op = "receive_worker_update"
     /\ ~(Known(last.pre_wl, last.args.worker_id)
           /\ last.args.worker_id \in last.pre_aw))
        => last.ret.kind = UNREGISTERED_WORKER

\* The last request was register, in KeyRestricted mode, presenting a key
\* of the key file with a valid signature over the agreed phrase.
LastRegisterListedKey ==
    /\ LastRegisterAuthenticated
    /\ last.args.signed_message.phrase = "agreed"

RegisterSucceeded ==
    /\ last.ret = Ret("worker_id", last.args.public_key_str, TRUE)
    /\ last.args.public_key_str \in active_workers
    /\ last.cbs = <<Call(JOINED, last.args.public_key_str)>>

\* C5 as stated: in KeyRestricted mode a register request presenting a key
\* of the key file with a valid signature returns the key, leaves it active
\* and invokes on-worker-joined once with it.
C5_ListedKeyRegisters == LastRegisterListedKey => RegisterSucceeded

\* C5 as amended: ... provided the key is in worker_list when the request
\* is made.
C5_ProvisionedListedKeyRegisters ==
    (LastRegisterListedKey /\ Known(last.pre_wl, last.args.public_key_str))
        => RegisterSucceeded

C5_Witness ==
    /\ LastRegisterListedKey
    /\ last.args.public_key_str = KeyK
    /\ Known(last.pre_wl, KeyK)
    /\ KeyK \notin last.pre_aw
    /\ KeyK \in active_workers

\* C6: in KeyRestricted mode a register request whose key is not in the
\* key list returns INVALID_WORKER, changes neither collection and invokes
\* no callback, in every registry state.
C6_UnlistedKeyRejected ==
    (/\ authenticate
     /\ last.op = "register"
     /\ last.args.public_key_str \notin keys)
        => (last.ret.kind = INVALID_WORKER /\ LastChangedNothing)

\* The unlisted key had been added by an administrator and carried its own
\* valid signature.
C6_Witness ==
    /\ authenticate
    /\ last.op = "register"
    /\ last.args.public_key_str = KeyJ
    /\ KeyJ \notin keys
    /\ last.args.signed_message.signer = KeyJ
    /\ Known(last.pre_wl, KeyJ)
    /\ last.ret.kind = INVALID_WORKER

\* C7: in KeyRestricted mode an authenticated register for an id that is
\* not in worker_list is rejected and changes nothing; for an id in
\* worker_list it leaves the id active, invokes on-worker-joined once and
\* returns the id.
C7_RestrictedRegister ==
    LastRegisterAuthenticated =>
        IF ~Known(last.pre_wl, last.args.public_key_str)
        THEN last.ret.kind = INVALID_WORKER /\ LastChangedNothing
        ELSE RegisterSucceeded /\ worker_list = last.pre_wl
             /\ active_workers = last.pre_aw \cup {last.args.public_key_str}

\* A worker that was already active registers again.
C7_Witness ==
    /\ LastRegisterAuthenticated
    /\ last.args.public_key_str \in last.pre_aw
    /\ last.ret.kind = "worker_id"
    /\ Len(calls) = 2

\* C8: in Open mode every register request succeeds: it returns an id
\* tagged unauthenticated that is in worker_list and in active_workers, and
\* invokes on-worker-joined once with it.
C8_OpenRegisterSucceeds ==
    (~authenticate /\ last.op = "register") =>
        /\ last.ret.kind = "worker_id"
        /\ IsUnauthenticatedId(last.ret.worker_id)
        /\ Known(worker_list, last.ret.worker_id)
        /\ last.ret.worker_id \in active_workers
        /\ last.cbs = <<Call(JOINED, last.ret.worker_id)>>

\* The request presented a key with a message that is not even hex.
C8_Witness ==
    /\ ~authenticate
    /\ last.op = "register"
    /\ last.args.signed_message.encoding = "malformed"
    /\ last.ret.kind = "worker_id"
    /\ last.ret.worker_id \notin last.pre_aw

\* C9: in Open mode two consecutive register requests return two distinct
\* ids.
C9_ConsecutiveRegistersDistinct ==
    [][(/\ ~authenticate
        /\ last.op = "register"
        /\ nops' = nops + 1
        /\ last'.op = "register")
           => last'.ret.worker_id # last.ret.worker_id]_vars

\* The last request was an accepted adminSetActive for a known id.
LastSetStatusKnown ==
    /\ last.op = "admin_set_status"
    /\ auth_basic(last.args.cred)
    /\ last.args.has_active /\ last.args.is_bool
    /\ Known(last.pre_wl, last.args.worker_id)

\* C10, one request: Inactive->Active invokes on-worker-joined once,
\* Active->Inactive invokes on-worker-left once, a request for the state the
\* id is in invokes nothing, changes nothing and is no error.
C10_TwoStateMachine ==
    LastSetStatusKnown =>
        LET id == last.args.worker_id
            was == id \in last.pre_aw
            now == last.args.active
        IN  /\ last.ret = Ret("worker", id, now)
            /\ worker_list = last.pre_wl
            /\ (now /\ ~was) =>
                  /\ last.cbs = <<Call(JOINED, id)>>
                  /\ active_workers = last.pre_aw \cup {id}
            /\ (~now /\ was) =>
                  /\ last.cbs = <<Call(LEFT, id)>>
                  /\ active_workers = last.pre_aw \ {id}
            /\ (now = was) => LastChangedNothing

\* C10, twice in a row: the second of two adminSetActive(i, true) invokes
\* nothing, so the two together invoke on-worker-joined at most once, and
\* exactly once when i was inactive before the first.
C10_SecondActivationSilent ==
    (/\ LastSetStatusKnown
     /\ last.args.active
     /\ nops' = nops + 1
     /\ last'.op = "admin_set_status"
     /\ auth_basic(last'.args.cred)
     /\ last'.args.has_active /\ last'.args.is_bool /\ last'.args.active
     /\ last'.args.worker_id = last.args.worker_id)
        => /\ last'.cbs = <<>>
           /\ last'.ret.kind = "worker"
           /\ last.args.worker_id \notin last.pre_aw
                 => last.cbs = <<Call(JOINED, last.args.worker_id)>>

\* C10: adminSetActive on a known id is a two-state machine, and
\* adminSetActive(i, true) twice in a row invokes on-worker-joined once.
C10_SetActiveIdempotent ==
    [](C10_TwoStateMachine) /\ [][C10_SecondActivationSilent]_vars

\* An id that was added inactive was activated, and then asked active again.
C10_Witness ==
    /\ LastSetStatusKnown
    /\ last.args.active
    /\ last.args.worker_id \in last.pre_aw
    /\ last.cbs = <<>>
    /\ calls = <<Call(JOINED, last.args.worker_id)>>
    /\ nops = 3

\* The callbacks of the log that are about id, in order.
CallsFor(id) == SelectSeq(calls, LAMBDA c : c.id = id)

\* C11: of the adminSetActive(i, true) requests that find i inactive, no two
\* invoke on-worker-joined for i one after the other (and likewise
\* on-worker-left for adminSetActive(i, false)): the read of the previous
\* state and the update are not interleaved with another request's.
C11_ConcurrentSetActiveFiresOnce ==
    \A n \in 1..Len(calls) :
        LET own == CallsFor(calls[n].id) IN
        \A k \in 1..(Len(own) - 1) :
            ~(/\ own[k].op = "admin_set_status"
              /\ own[k+1].op = "admin_set_status"
              /\ own[k].cb = own[k+1].cb)

\* C15: worker_list never holds the same id twice, also when requests that
\* add the same id are handled concurrently.
C15_WorkerListUnique ==
    \A i, j \in 1..Len(worker_list) :
        i # j => worker_list[i] # worker_list[j]

\* The last request was an adminRemove that passed the admin gate.
LastDeleteAccepted ==
    /\ last.op = "admin_delete"
    /\ auth_basic(last.args.cred)

\* C12: adminRemove(i) reports no error; afterwards i is in neither
\* collection; on-worker-left is invoked once with i if i was active and
\* not at all otherwise; no other id's membership changes.
C12_RemoveEffect ==
    LastDeleteAccepted =>
        LET id == last.args.worker_id IN
        /\ last.ret = Ret("none", EmptyStr, FALSE)
        /\ id \notin Range(worker_list)
        /\ id \notin active_workers
        /\ last.cbs = IF id \in last.pre_aw THEN <<Call(LEFT, id)>> ELSE <<>>
        /\ worker_list = SelectSeq(last.pre_wl, LAMBDA x : x # id)
        /\ active_workers = last.pre_aw \ {id}

\* An active worker was removed while another id stayed known.
C12_Witness ==
    /\ LastDeleteAccepted
    /\ last.args.worker_id \in last.pre_aw
    /\ last.cbs = <<Call(LEFT, last.args.worker_id)>>
    /\ Len(worker_list) = 1
    /\ Len(last.pre_wl) = 2

\* The last request was an adminAdd that passed the admin gate and whose
\* body names an id.
LastAddAccepted ==
    /\ last.op = "admin_add"
    /\ auth_basic(last.args.cred)
    /\ last.args.has_id

\* C13: adminAdd(i, activateImmediately) returns an error and changes
\* nothing when i is in worker_list or empty; otherwise it appends i, and
\* i becomes active and on-worker-joined is invoked once iff
\* activateImmediately.
C13_AddEffect ==
    LastAddAccepted =>
        LET id == last.args.worker_id
            want == last.args.has_active /\ last.args.active
        IN  IF id = EmptyStr \/ Known(last.pre_wl, id)
            THEN last.ret.kind = "error" /\ LastChangedNothing
            ELSE /\ worker_list = Append(last.pre_wl, id)
                 /\ last.ret = Ret("worker", id, want)
                 /\ want => /\ active_workers = last.pre_aw \cup {id}
                             /\ last.cbs = <<Call(JOINED, id)>>
                 /\ ~want => /\ active_workers = last.pre_aw
                              /\ last.cbs = <<>>

\* An id that is already known is added again with active set.
C13_Witness ==
    /\ LastAddAccepted
    /\ last.args.has_active /\ last.args.active
    /\ Known(last.pre_wl, last.args.worker_id)
    /\ last.ret = ErrorRet("already exists")

\* C14: adminSetActive(i, a) for an i that is not in worker_list returns the
\* unknown-worker error for a = true and for a = false, changes nothing and
\* invokes no callback.
C14_SetActiveUnknown ==
    (/\ last.op = "admin_set_status"
     /\ auth_basic(last.args.cred)
     /\ last.args.has_active /\ last.args.is_bool
     /\ ~Known(last.pre_wl, last.args.worker_id))
        => (last.ret = ErrorRet("Unknown worker") /\ LastChangedNothing)

\* Activation was asked for an id that had been removed, with another
\* worker active.
C14_Witness ==
    /\ last.op = "admin_set_status"
    /\ auth_basic(last.args.cred)
    /\ last.args.is_bool /\ last.args.active
    /\ ~Known(last.pre_wl, last.args.worker_id)
    /\ last.ret.kind = "error"
    /\ active_workers # {}

AdminOps == {"admin_list", "admin_add", "admin_delete", "admin_set_status"}

\* Both credentials are configured and both supplied values equal them.
GateAccepts(cred) ==
    /\ adm_username.set /\ adm_password.set
    /\ cred.user = adm_username.v
    /\ cred.password = adm_password.v

\* C16: an admin request is handled iff both admin credentials are
\* configured and both supplied values match; a denied request changes
\* neither collection and invokes no callback.
C16_AdminGate ==
    last.op \in AdminOps =>
        /\ (last.ret.kind # "401") <=> GateAccepts(last.args.cred)
        /\ ~GateAccepts(last.args.cred) => LastChangedNothing

\* A request with the right password and the wrong user name is denied
\* while a worker is registered.
C16_Witness ==
    /\ last.op = "admin_delete"
    /\ adm_username.set /\ adm_password.set
    /\ last.args.cred.password = adm_password.v
    /\ last.args.cred.user # adm_username.v
    /\ last.args.worker_id \in active_workers
    /\ last.ret.kind = "401"

\* C17: in KeyRestricted mode, for a key of the key store, authenticate
\* returns (false, KeyRestricted) whenever verification does not succeed,
\* whatever exception verification ends with, and raises nothing; it
\* returns true only when verification succeeds.
C17_VerificationFailureIsRejection ==
    (/\ authenticate
     /\ last.op = "register"
     /\ last.args.public_key_str \in keys)
        => LET ok == Verify(last.args.public_key_str,
                            last.args.signed_message) = "ok"
           IN  /\ last.ret.kind # "raised"
               /\ ~ok => last.ret.kind = INVALID_WORKER
               /\ last.ret.kind = "worker_id" => ok

\* The callback a relay handler is there to invoke.
OwnCallback(op) ==
    CASE op = "receive_worker_update" -> UPDATE_CB
      [] op = "query_global_model_status" -> STATUS_CB
      [] op = "return_global_model" -> MODEL_CB

\* The last request was a relay request for an id that was known and active.
LastRelayRegistered ==
    /\ last.op \in RelayOps
    /\ last.args.has_id
    /\ Known(last.pre_wl, last.args.worker_id)
    /\ last.args.worker_id \in last.pre_aw

OwnCallbackOnce ==
    /\ last.cbs = <<Call(OwnCallback(last.op), last.args.worker_id)>>
    /\ worker_list = last.pre_wl
    /\ active_workers = last.pre_aw

\* C18 as stated: a relay request for a known and active id invokes its own
\* callback once, no other callback, and leaves both collections unchanged.
C18_RelayInvokesOwnCallback == LastRelayRegistered => OwnCallbackOnce

\* C18 as amended: ... provided, for submitUpdate, that the payload
\* decompresses.
C18_RelayInvokesOwnCallbackOnSoundPayload ==
    (/\ LastRelayRegistered
     /\ last.op = "receive_worker_update" => Decompresses(last.args.payload))
        => OwnCallbackOnce

\* An update with a sound payload from an active worker reached the
\* callback, which returned.
C18_Witness ==
    /\ LastRelayRegistered
    /\ last.op = "receive_worker_update"
    /\ last.args.payload = "deflate"
    /\ last.ret.kind = "callback_result"

\* C19, the failing request: nothing leaves a relay handler as an
\* exception; a payload that does not decompress and a callback that raises
\* each give the error's text; both collections are unchanged.
C19_RelayFailureContained ==
    last.op \in RelayOps =>
        /\ last.ret.kind # "raised"
        /\ (last.op = "receive_worker_update"
             /\ ~Decompresses(last.args.payload))
               => last.ret = ErrorText("zlib.error")
        /\ last.args.cb_raises => last.ret = ErrorText("callback")
        /\ last.ret.kind = "error_text" => /\ worker_list = last.pre_wl
                                            /\ active_workers = last.pre_aw

\* C19, the requests after it: a failing relay request leaves every relay
\* request, for every id, with the outcome it had before.
C19_RelayFailureStep ==
    (/\ nops' = nops + 1
     /\ last'.op \in RelayOps
     /\ last'.ret.kind = "error_text")
        => /\ \A id \in PathIds, p \in Payloads, r \in BOOLEAN :
                 receive_worker_update(id, p, r)' = receive_worker_update(id, p, r)
           /\ \A q \in QueryBodies, r \in BOOLEAN :
                 /\ query_global_model_status(q, r)'
                       = query_global_model_status(q, r)
                 /\ return_global_model(q, r)' = return_global_model(q, r)

\* C19: a failure inside a relay handler is returned as text, changes
\* neither collection and changes no later relay request's outcome.
C19_RelayFailureIsolated ==
    [](C19_RelayFailureContained) /\ [][C19_RelayFailureStep]_vars

\* An active worker's update did not decompress while another worker was
\* active too.
C19_Witness ==
    /\ LastRelayRegistered
    /\ last.op = "receive_worker_update"
    /\ last.args.payload = "corrupt"
    /\ last.ret = ErrorText("zlib.error")
    /\ Cardinality(active_workers) = 2

\* C20: with handlers run one at a time, an id is in active_workers iff a
\* lifecycle callback has been invoked for it and the most recent one is
\* on-worker-joined.
C20_CallbacksMirrorActive ==
    \A id \in active_workers \cup { calls[n].id : n \in 1..Len(calls) } :
        LET own == CallsFor(id) IN
        id \in active_workers
            <=> (Len(own) > 0 /\ own[Len(own)].cb = JOINED)

\* A worker was activated and deactivated again and is still known.
C20_Witness ==
    /\ last.op = "admin_set_status"
    /\ last.cbs = <<Call(LEFT, last.args.worker_id)>>
    /\ Known(worker_list, last.args.worker_id)
    /\ Len(CallsFor(last.args.worker_id)) = 2
    /\ last.args.worker_id \notin active_workers

\* The next request is a register for id that passes authentication in
\* KeyRestricted mode.
NextRegisterAuthenticated(id) ==
    /\ authenticate
    /\ nops' = nops + 1
    /\ last'.op = "register"
    /\ last'.args.public_key_str = id
    /\ id \in keys
    /\ last'.args.signed_message.encoding = "hex"
    /\ last'.args.signed_message.signer = id

\* C21, re-entry: the request right after an adminSetActive(i, false) that
\* deactivated i is a register of i with a valid signature; it returns i,
\* leaves i active and invokes on-worker-joined once.
C21_DeactivatedReenters ==
    (/\ LastSetStatusKnown
     /\ ~last.args.active
     /\ last.args.worker_id \in last.pre_aw
     /\ NextRegisterAuthenticated(last.args.worker_id))
        => /\ last'.ret = Ret("worker_id", last.args.worker_id, TRUE)
           /\ last'.cbs = <<Call(JOINED, last.args.worker_id)>>
           /\ last.args.worker_id \in active_workers'
           /\ worker_list' = worker_list

\* C21, removal: the request right after an accepted adminRemove(i) is a
\* register of i with a valid signature; it is rejected and changes nothing.
C21_RemovedStaysOut ==
    (/\ LastDeleteAccepted
     /\ NextRegisterAuthenticated(last.args.worker_id))
        => /\ last'.ret.kind = INVALID_WORKER
           /\ last'.cbs = <<>>
           /\ last.args.worker_id \notin active_workers'
           /\ UNCHANGED <<worker_list, active_workers>>

\* C21, only removal: an id leaves worker_list only through an accepted
\* adminRemove of that id.
C21_OnlyRemoveForgets ==
    \A id \in Range(worker_list) \ Range(worker_list') :
        /\ last'.op = "admin_delete"
        /\ auth_basic(last'.args.cred)
        /\ last'.args.worker_id = id

\* C21, any time: a register that passes authentication in KeyRestricted
\* mode leaves its id active exactly when the id was in worker_list.
C21_RegisterAdmitsEveryKnown ==
    LastRegisterAuthenticated =>
        (last.args.public_key_str \in active_workers
            <=> Known(last.pre_wl, last.args.public_key_str))

\* C21: in KeyRestricted mode an id deactivated by adminSetActive(i, false)
\* and not removed is active again after its next register with a valid
\* signature, with no admin request in between; a register of i is kept
\* out only while i is not in worker_list, and only adminRemove(i) takes i
\* out of worker_list.
C21_DeactivationDoesNotBlockRegister ==
    /\ [](C21_RegisterAdmitsEveryKnown)
    /\ [][/\ C21_DeactivatedReenters
          /\ C21_RemovedStaysOut
          /\ C21_OnlyRemoveForgets]_vars

\* A worker was activated, deactivated by adminSetActive and has registered
\* again.
C21_Witness ==
    /\ LastRegisterAuthenticated
    /\ last.ret.kind = "worker_id"
    /\ last.args.public_key_str \notin last.pre_aw
    /\ CallsFor(last.args.public_key_str)
          = <<Call(JOINED, last.args.public_key_str),
              Call(LEFT, last.args.public_key_str),
              Call(JOINED, last.args.public_key_str)>>
    /\ last.args.public_key_str \in active_workers

====
